---- MODULE Spec2Model ----
(***************************************************************************)
(* Export reconciliation engine of the sports-card text extraction        *)
(* backend: the /export/csv and /export/sheets handlers of                *)
(* backend/src/controllers/exportController.ts, the in-process card store *)
(* and the destination spreadsheet tab they write to.                     *)
(*                                                                         *)
(* Text is modelled by TLA+ strings; Len, SubSeq and \o act on them as    *)
(* on sequences of characters.                                            *)
(***************************************************************************)
EXTENDS Integers, Sequences, FiniteSets, TLC

(***************************************************************************)
(* JavaScript string primitives used by the handlers.                     *)
(***************************************************************************)

\* Thresholds of the handlers.
SwapTitleMin == 200
SwapDescMax == 100
EmbeddedTitleMin == 150
DescPrefixLen == 50
MatchWindow == 150
TruncateLen == 100
FinalCheckMin == 200

\* The value of an optional field that is not set (JavaScript undefined).
undefined == "<undefined>"

\* JavaScript truthiness of an optional string: set and not empty.
Truthy(s) == s /= undefined /\ s /= ""

\* `s || d`
OrElse(s, d) == IF Truthy(s) THEN s ELSE d

\* String(s || "")
Str(s) == OrElse(s, "")

Min(a, b) == IF a < b THEN a ELSE b

Upper == {"A", "B", "C", "D", "E", "F", "G", "H", "I", "J", "K", "L", "M",
          "N", "O", "P", "Q", "R", "S", "T", "U", "V", "W", "X", "Y", "Z"}

Lower == {"a", "b", "c", "d", "e", "f", "g", "h", "i", "j", "k", "l", "m",
          "n", "o", "p", "q", "r", "s", "t", "u", "v", "w", "x", "y", "z"}

\* The characters \s matches and trim() strips.
WhiteSpace == {" ", "\t", "\n", "\r", "\f"}

\* The characters the regular expression's `.` does not match.
LineTerminator == {"\n", "\r"}

\* The i-th character of s (1-based), "" past the end.
CharAt(s, i) == IF i >= 1 /\ i <= Len(s) THEN SubSeq(s, i, i) ELSE ""

\* s.substring(a, b) for 0 <= a <= b.
Substring(s, a, b) == SubSeq(s, a + 1, Min(b, Len(s)))

\* s.includes(t)
Includes(s, t) ==
    \E i \in 1..(Len(s) - Len(t) + 1) : SubSeq(s, i, i + Len(t) - 1) = t

\* The first position >= p of s whose character is not in the class cls
\* (Len(s) + 1 when the run reaches the end): the end of a greedy cls*.
SkipClass(s, p, cls) ==
    IF p > Len(s)
    THEN p
    ELSE CHOOSE q \in p..(Len(s) + 1) :
            /\ \A i \in p..(q - 1) : CharAt(s, i) \in cls
            /\ q = Len(s) + 1 \/ CharAt(s, q) \notin cls

\* The last position of s whose character is not white space, 0 if none.
LastInk(s) ==
    IF \A i \in 1..Len(s) : CharAt(s, i) \in WhiteSpace
    THEN 0
    ELSE CHOOSE q \in 1..Len(s) :
            /\ CharAt(s, q) \notin WhiteSpace
            /\ \A i \in (q + 1)..Len(s) : CharAt(s, i) \in WhiteSpace

\* s.trim()
Trim(s) == SubSeq(s, SkipClass(s, 1, WhiteSpace), LastInk(s))

(***************************************************************************)
(* The name-boundary pattern                                               *)
(*   /^(.{0,150}?)(?:\s*,\s*[A-Z][a-z]+\s+[A-Z][a-z]+)/                     *)
(* The classes that follow one another are disjoint, so the greedy        *)
(* quantifiers never need to give characters back.                        *)
(***************************************************************************)

\* Does  \s*,\s*[A-Z][a-z]+\s+[A-Z][a-z]+  match s starting at position p ?
BoundaryAt(s, p) ==
    LET p1 == SkipClass(s, p, WhiteSpace)
        p2 == SkipClass(s, p1 + 1, WhiteSpace)
        p3 == SkipClass(s, p2 + 1, Lower)
        p4 == SkipClass(s, p3, WhiteSpace)
    IN  /\ CharAt(s, p1) = ","
        /\ CharAt(s, p2) \in Upper
        /\ p3 > p2 + 1
        /\ p4 > p3
        /\ CharAt(s, p4) \in Upper
        /\ CharAt(s, p4 + 1) \in Lower

\* The lengths k the lazy group (.{0,150}?) can take in a match.
GroupLengths(s) ==
    {k \in 0..Min(MatchWindow, Len(s)) :
        /\ \A i \in 1..k : CharAt(s, i) \notin LineTerminator
        /\ BoundaryAt(s, k + 1)}

\* listingTitle.match(...): the group of the first match, or undefined when
\* the pattern does not match. The lazy quantifier takes the shortest group.
TitleMatch(s) ==
    IF GroupLengths(s) = {}
    THEN undefined
    ELSE LET k == CHOOSE k \in GroupLengths(s) :
                      \A j \in GroupLengths(s) : k <= j
         IN  SubSeq(s, 1, k)

(***************************************************************************)
(* Card records and the field-integrity checks of the two handlers.       *)
(***************************************************************************)

\* A swap check that also fires on the record a swap leaves behind.
SwapDefectEitherLong(card) ==
    /\ Truthy(card.autoTitle)
    /\ Truthy(card.autoDescription)
    /\ \/ Len(card.autoTitle) > SwapTitleMin /\ Len(card.autoDescription) < SwapDescMax
       \/ Len(card.autoDescription) > SwapTitleMin /\ Len(card.autoTitle) < SwapDescMax

\* if (card.autoTitle && card.autoDescription)
\*   if (card.autoTitle.length > 200 && card.autoDescription.length < 100)
SwapDefect(card) ==
    /\ Truthy(card.autoTitle)
    /\ Truthy(card.autoDescription)
    /\ Len(card.autoTitle) > SwapTitleMin
    /\ Len(card.autoDescription) < SwapDescMax

\* A swap without the temporary: autoDescription is read back from autoTitle.
SwapFieldsNoTemp(card) ==
    [card EXCEPT !.autoTitle = card.autoDescription,
                 !.autoDescription = card.autoDescription]

\* temp = autoTitle; autoTitle = autoDescription; autoDescription = temp
SwapFields(card) ==
    [card EXCEPT !.autoTitle = card.autoDescription,
                 !.autoDescription = card.autoTitle]

\* A swap check that exchanges the two texts of every record.
SwapCheckAlways(card) == SwapFields(card)

\* The record the swap check leaves in the store.
SwapCheck(card) == IF SwapDefect(card) THEN SwapFields(card) ELSE card

\* A working title that takes every non-empty autoTitle, blank ones included.
WorkingTitleNonEmpty(card) ==
    IF Truthy(card.autoTitle) THEN card.autoTitle ELSE card.normalized.title

\* autoTitle when set and not blank, else normalized.title
WorkingTitle(card) ==
    IF Truthy(card.autoTitle) /\ Trim(card.autoTitle) /= ""
    THEN card.autoTitle
    ELSE card.normalized.title

\* listingTitle.length > 150 && listingTitle.includes(desc.substring(0, 50))
EmbeddedDefect(title, desc) ==
    /\ Len(title) > EmbeddedTitleMin
    /\ Includes(title, Substring(desc, 0, DescPrefixLen))

\* An extraction that falls back to the first 150 characters.
ExtractTitleWindow(title) ==
    IF Truthy(TitleMatch(title))
    THEN Trim(TitleMatch(title))
    ELSE Trim(Substring(title, 0, MatchWindow))

\* The title extracted from one that embeds the description.
ExtractTitle(title) ==
    IF Truthy(TitleMatch(title))
    THEN Trim(TitleMatch(title))
    ELSE Trim(Substring(title, 0, TruncateLen))

\* The block `if (listingTitle && card.autoDescription) { ... }` with the
\* given last-resort literal.
RepairTitle(title, card, literal) ==
    IF Truthy(title) /\ Truthy(card.autoDescription)
    THEN LET t1 == IF EmbeddedDefect(title, card.autoDescription)
                   THEN ExtractTitle(title)
                   ELSE title
         IN  IF t1 = card.autoDescription
             THEN OrElse(card.normalized.title, literal)
             ELSE t1
    ELSE title

\* listingTitle of the /csv handler, for the record after the swap check.
CsvListingTitle(card) == RepairTitle(WorkingTitle(card), card, "Untitled")

\* FINAL SAFETY CHECK of the /sheets handler.
FinalSafetyCheck(title, card) ==
    IF /\ Truthy(title)
       /\ Truthy(card.autoDescription)
       /\ \/ title = card.autoDescription
          \/ /\ Len(title) > FinalCheckMin
             /\ Includes(title, Substring(card.autoDescription, 0, DescPrefixLen))
    THEN OrElse(card.normalized.title, "Untitled Card")
    ELSE title

\* A /sheets listingTitle without the repair block: the final safety check
\* on the working title.
SheetsListingTitleUnrepaired(card) == FinalSafetyCheck(WorkingTitle(card), card)

\* listingTitle of the /sheets handler, for the record after the swap check.
SheetsListingTitle(card) ==
    FinalSafetyCheck(RepairTitle(WorkingTitle(card), card, "Untitled"), card)

(***************************************************************************)
(* Configuration (config.ts) from the process environment.                *)
(***************************************************************************)

\* config.nodeEnv, config.google.sheets.spreadsheetId and .sheetName; an
\* environment variable that is not set is undefined. credentials tells
\* whether service-account credentials are found.
Config(environment) ==
    [nodeEnv       |-> OrElse(environment.NODE_ENV, "development"),
     spreadsheetId |-> OrElse(environment.GOOGLE_SHEETS_SPREADSHEET_ID, ""),
     sheetName     |-> OrElse(environment.GOOGLE_SHEETS_SHEET_NAME, "Cards"),
     credentials   |-> environment.credentials]

(***************************************************************************)
(* The spreadsheet service: a tab is a grid, a sequence of rows of cells. *)
(***************************************************************************)

Max(a, b) == IF a > b THEN a ELSE b

RECURSIVE DropTrailing(_, _)
\* seq without its trailing elements equal to blank
DropTrailing(seq, blank) ==
    IF Len(seq) > 0 /\ seq[Len(seq)] = blank
    THEN DropTrailing(SubSeq(seq, 1, Len(seq) - 1), blank)
    ELSE seq

\* spreadsheets.values.get over A:Z : the rows up to the last one that has a
\* value, each without its trailing empty cells.
ValuesGet(grid) ==
    DropTrailing([i \in 1..Len(grid) |-> DropTrailing(grid[i], "")], <<>>)

\* spreadsheets.values.update of one row: the cells the values cover are
\* replaced, the other cells of the grid are kept.
ValuesUpdate(grid, rowNumber, values) ==
    LET height == Max(Len(grid), rowNumber)
        old(i) == IF i <= Len(grid) THEN grid[i] ELSE <<>>
    IN  [i \in 1..height |->
            IF i = rowNumber
            THEN [j \in 1..Max(Len(old(i)), Len(values)) |->
                     IF j <= Len(values) THEN values[j] ELSE old(i)[j]]
            ELSE old(i)]

(***************************************************************************)
(* Header classification, row construction and row validation of the      *)
(* /sheets handler.                                                        *)
(***************************************************************************)

\* nextRow = (existingData.data.values?.length || 0) + 1
NextRow(values) == Len(values) + 1

\* A classification that leaves a duplicate "Auto Description" header alone.
ClassifyHeadersKeepDuplicate(values) ==
    IF Len(values) > 0
    THEN LET h == values[1]
         IN  IF Len(h) = 12 /\ h[12] = "Auto Description"
             THEN IF h[11] = "Auto Title" \/ h[11] = "Auto Description"
                  THEN [index |-> 11, needsHeaderUpdate |-> FALSE]
                  ELSE [index |-> 11, needsHeaderUpdate |-> TRUE]
             ELSE IF Len(h) = 11 /\ h[11] = "Auto Description"
                  THEN [index |-> 10, needsHeaderUpdate |-> FALSE]
                  ELSE [index |-> IF Len(h) > 11 THEN 11 ELSE 10,
                        needsHeaderUpdate |-> TRUE]
    ELSE [index |-> 10, needsHeaderUpdate |-> FALSE]

\* A classification that takes column L as soon as column K exists.
ClassifyHeadersWide(values) ==
    IF Len(values) > 0
    THEN LET h == values[1]
         IN  IF Len(h) = 12 /\ h[12] = "Auto Description"
             THEN IF h[11] = "Auto Title" \/ h[11] = "Auto Description"
                  THEN [index |-> 11, needsHeaderUpdate |-> (h[11] = "Auto Description")]
                  ELSE [index |-> 11, needsHeaderUpdate |-> TRUE]
             ELSE IF Len(h) = 11 /\ h[11] = "Auto Description"
                  THEN [index |-> 10, needsHeaderUpdate |-> FALSE]
                  ELSE [index |-> IF Len(h) > 10 THEN 11 ELSE 10,
                        needsHeaderUpdate |-> TRUE]
    ELSE [index |-> 10, needsHeaderUpdate |-> FALSE]

\* autoDescriptionColumnIndex and needsHeaderUpdate for the rows read.
ClassifyHeaders(values) ==
    IF Len(values) > 0
    THEN LET h == values[1]
         IN  IF Len(h) = 12 /\ h[12] = "Auto Description"
             THEN IF h[11] = "Auto Title" \/ h[11] = "Auto Description"
                  THEN [index |-> 11, needsHeaderUpdate |-> (h[11] = "Auto Description")]
                  ELSE [index |-> 11, needsHeaderUpdate |-> TRUE]
             ELSE IF Len(h) = 11 /\ h[11] = "Auto Description"
                  THEN [index |-> 10, needsHeaderUpdate |-> FALSE]
                  ELSE [index |-> IF Len(h) > 11 THEN 11 ELSE 10,
                        needsHeaderUpdate |-> TRUE]
    ELSE [index |-> 10, needsHeaderUpdate |-> FALSE]

\* A row whose Auto Title cell is the record's autoTitle without the fallback
\* to the listing title.
BuildRowNoFallback(card, listingTitle, index) ==
    LET n == card.normalized
        safeListingTitle == Str(listingTitle)
        safeAutoDescription == Str(card.autoDescription)
        safeAutoTitle == Str(card.autoTitle)
        common == <<Str(n.year), Str(n.set), Str(n.cardNumber), safeListingTitle,
                    Str(n.playerFirstName), Str(n.playerLastName),
                    Str(n.gradingCompany), Str(n.grade), Str(n.cert),
                    Str(n.caption)>>
    IN  IF index = 11
        THEN common \o <<safeAutoTitle, safeAutoDescription>>
        ELSE common \o <<safeAutoDescription>>

\* rowData for the description column index (0-based, as in the handler).
BuildRow(card, listingTitle, index) ==
    LET n == card.normalized
        safeListingTitle == Str(listingTitle)
        safeAutoDescription == Str(card.autoDescription)
        safeAutoTitle == OrElse(card.autoTitle, safeListingTitle)
        common == <<Str(n.year), Str(n.set), Str(n.cardNumber), safeListingTitle,
                    Str(n.playerFirstName), Str(n.playerLastName),
                    Str(n.gradingCompany), Str(n.grade), Str(n.cert),
                    Str(n.caption)>>
    IN  IF index = 11
        THEN common \o <<safeAutoTitle, safeAutoDescription>>
        ELSE common \o <<safeAutoDescription>>

\* Row validation that omits the length comparison.
RowErrorNoLengthCheck(rowData, index) ==
    LET expectedLength == IF index = 11 THEN 12 ELSE 11
        title == rowData[4]
        desc == rowData[index + 1]
    IN  IF Len(rowData) /= expectedLength
        THEN "Row data array has incorrect length"
        ELSE IF title /= "" /\ desc /= "" /\ title = desc
        THEN "Listing Title and Auto Description cannot be identical"
        ELSE ""

\* The message of the error the row validation throws, "" when it passes.
RowError(rowData, index) ==
    LET expectedLength == IF index = 11 THEN 12 ELSE 11
        title == rowData[4]
        desc == rowData[index + 1]
    IN  IF Len(rowData) /= expectedLength
        THEN "Row data array has incorrect length"
        ELSE IF title /= "" /\ desc /= "" /\ title = desc
        THEN "Listing Title and Auto Description cannot be identical"
        ELSE IF title /= "" /\ desc /= "" /\ Len(title) > Len(desc)
        THEN "Listing Title is longer than Auto Description - fields may be swapped"
        ELSE ""

ExpectedHeaders ==
    <<"Year", "Set", "Card Number", "Listing Title", "Player First Name",
      "Player Last Name", "Grading Company", "Grade", "Cert",
      "Listing Caption", "Auto Description">>

\* Headers that are the 11 columns for every description column index.
HeadersNarrow(index) == ExpectedHeaders

\* headers written for the description column index
Headers(index) ==
    IF index = 11
    THEN SubSeq(ExpectedHeaders, 1, 10) \o <<"Auto Title", "Auto Description">>
    ELSE ExpectedHeaders

\* endColumn of the ranges written
EndColumn(index) == IF index = 11 THEN "L" ELSE "K"

\* `${sheetName}!A1:K1` or `${sheetName}!A1:L1`
HeaderRange(sheetName, index) ==
    [sheet |-> sheetName, row |-> 1, endColumn |-> EndColumn(index)]

\* A row range that ends at column K for every description column index.
RowRangeToK(sheetName, nextRow, index) ==
    [sheet |-> sheetName, row |-> nextRow, endColumn |-> "K"]

\* `${sheetName}!A${nextRow}:${endColumn}${nextRow}`
RowRange(sheetName, nextRow, index) ==
    [sheet |-> sheetName, row |-> nextRow, endColumn |-> EndColumn(index)]

\* `https://docs.google.com/spreadsheets/d/${spreadsheetId}`
SheetUrl(spreadsheetId) == "https://docs.google.com/spreadsheets/d/" \o spreadsheetId

(***************************************************************************)
(* /export/csv: the header line and the data line, as lists of fields.    *)
(***************************************************************************)

CsvColumns == ExpectedHeaders

\* A data line whose Listing Title is the record's autoTitle as stored.
CsvDataRawTitle(card, listingTitle) ==
    LET n == card.normalized
    IN  <<Str(n.year), Str(n.set), Str(n.cardNumber), Str(card.autoTitle),
          Str(n.playerFirstName), Str(n.playerLastName), Str(n.gradingCompany),
          Str(n.grade), Str(n.cert), Str(n.caption), Str(card.autoDescription)>>

CsvData(card, listingTitle) ==
    LET n == card.normalized
    IN  <<Str(n.year), Str(n.set), Str(n.cardNumber), Str(listingTitle),
          Str(n.playerFirstName), Str(n.playerLastName), Str(n.gradingCompany),
          Str(n.grade), Str(n.cert), Str(n.caption), Str(card.autoDescription)>>

(***************************************************************************)
(* State.                                                                  *)
(***************************************************************************)

VARIABLES
    cardsStore,    \* cardId -> card record (the in-process store)
    tabs,          \* tab name -> grid, the tabs of the spreadsheet that exists
    environment,   \* the process environment read by config.ts
    clients,       \* the request bodies clients send
    req,           \* request -> the state of its handler
    stored,        \* cardId -> the record the upstream pipeline stored
    page           \* the review page: its autoTitle poller

vars == <<cardsStore, tabs, environment, clients, req, stored, page>>

\* The one spreadsheet the service knows.
TheSpreadsheet == "sheet-1"

Requests == DOMAIN req

\* A handler that has not received its request yet.
Idle ==
    [pc |-> "idle", route |-> "", body |-> [cardId |-> undefined,
                                            spreadsheetId |-> undefined,
                                            sheetName |-> undefined],
     spreadsheetId |-> "", sheetName |-> "", listingTitle |-> "",
     values |-> <<>>, nextRow |-> 0, index |-> 10, needsHeaderUpdate |-> FALSE,
     rowData |-> <<>>, calls |-> <<>>, serviceFailed |-> FALSE,
     status |-> 0,
     response |-> [error |-> "", details |-> undefined, message |-> "",
                   spreadsheetId |-> "", sheetName |-> "", sheetUrl |-> "",
                   row |-> 0, csv |-> <<>>]]

\* The handler state rq after res.status(code).json({ error, details }).
Reply(rq, code, error, details) ==
    [rq EXCEPT !.pc = "done", !.status = code,
               !.response.error = error, !.response.details = details]

\* A catch block that gives the details in every mode but production.
SheetsCatchOutsideProduction(rq, errorMessage) ==
    Reply(rq, 500, "Google Sheets export failed",
          IF Config(environment).nodeEnv /= "production" THEN errorMessage ELSE undefined)

\* The handler state rq after the catch block of the /sheets handler.
SheetsCatch(rq, errorMessage) ==
    Reply(rq, 500, "Google Sheets export failed",
          IF Config(environment).nodeEnv = "development" THEN errorMessage ELSE undefined)

\* The handler state rq after a service call was rejected and caught.
Rejected(rq, errorMessage) ==
    [SheetsCatch(rq, errorMessage) EXCEPT !.serviceFailed = TRUE]

\* The handler state rq after the 200 response of the /sheets handler.
Success(rq) ==
    [rq EXCEPT !.pc = "done", !.status = 200,
               !.response.message = "Data exported to Google Sheets successfully",
               !.response.spreadsheetId = rq.spreadsheetId,
               !.response.sheetName = rq.sheetName,
               !.response.sheetUrl = SheetUrl(rq.spreadsheetId),
               !.response.row = rq.nextRow]

\* The error of the 500 response when no service-account credentials are found.
CredentialsError(nodeEnv) ==
    IF nodeEnv = "production"
    THEN "Google Sheets service account credentials not found. In production, you must set GOOGLE_SHEETS_CREDENTIALS_JSON environment variable. Copy the entire contents of your service account JSON file and set it as an environment variable."
    ELSE "Google Sheets service account credentials not found. Check GOOGLE_SHEETS_SERVICE_ACCOUNT_KEY or GOOGLE_SHEETS_CREDENTIALS_JSON in .env"

\* A service call: its method and, for a values.update, the range written.
NoRange == [sheet |-> "", row |-> 0, endColumn |-> ""]

Call(method, range) == [method |-> method, range |-> range]

\* The handler state rq after it has issued the given service call.
Issue(rq, call) == [rq EXCEPT !.calls = Append(@, call)]

(***************************************************************************)
(* POST /export/csv: one synchronous step.                                 *)
(***************************************************************************)
CsvExport(r) ==
    /\ req[r].pc = "idle"
    /\ \E body \in clients :
         LET cardId == body.cardId
             received == [req EXCEPT ![r].route = "csv", ![r].body = body]
         IN  IF ~Truthy(cardId)
             THEN /\ req' = [received EXCEPT ![r] =
                                Reply(@, 400, "Card ID is required", undefined)]
                  /\ UNCHANGED cardsStore
             ELSE IF cardId \notin DOMAIN cardsStore
             THEN /\ req' = [received EXCEPT ![r] =
                                Reply(@, 404, "Card not found", undefined)]
                  /\ UNCHANGED cardsStore
             ELSE LET card == SwapCheck(cardsStore[cardId])
                      listingTitle == CsvListingTitle(card)
                  IN  /\ cardsStore' = [cardsStore EXCEPT ![cardId] = card]
                      /\ req' = [received EXCEPT
                                   ![r].pc = "done", ![r].status = 200,
                                   ![r].listingTitle = listingTitle,
                                   ![r].response.csv =
                                       <<CsvColumns, CsvData(card, listingTitle)>>]
    /\ UNCHANGED <<tabs, environment, clients, stored>>

\* A start of the /sheets handler that resolves the spreadsheet id before it
\* looks the card up.
SheetsStartIdFirst(r) ==
    /\ req[r].pc = "idle"
    /\ \E body \in clients :
         LET cardId == body.cardId
             config == Config(environment)
             spreadsheetId == OrElse(config.spreadsheetId, body.spreadsheetId)
             sheetName == OrElse(config.sheetName, OrElse(body.sheetName, "Cards"))
             received == [req EXCEPT ![r].route = "sheets", ![r].body = body]
             resolved == [received EXCEPT ![r].spreadsheetId = Str(spreadsheetId),
                                          ![r].sheetName = sheetName]
         IN  IF ~Truthy(cardId)
             THEN /\ req' = [received EXCEPT ![r] =
                                Reply(@, 400, "Card ID is required", undefined)]
                  /\ UNCHANGED cardsStore
             ELSE IF ~Truthy(spreadsheetId)
             THEN /\ req' = [resolved EXCEPT ![r] =
                                Reply(@, 400, "Google Sheets Spreadsheet ID is required. Set GOOGLE_SHEETS_SPREADSHEET_ID in .env or provide spreadsheetId in request.", undefined)]
                  /\ UNCHANGED cardsStore
             ELSE IF cardId \notin DOMAIN cardsStore
             THEN /\ req' = [received EXCEPT ![r] =
                                Reply(@, 404, "Card not found", undefined)]
                  /\ UNCHANGED cardsStore
             ELSE LET card == SwapCheck(cardsStore[cardId])
                  IN  /\ cardsStore' = [cardsStore EXCEPT ![cardId] = card]
                      /\ IF ~config.credentials
                         THEN req' = [resolved EXCEPT ![r] =
                                 Reply(@, 500, CredentialsError(config.nodeEnv), undefined)]
                         ELSE req' = [resolved EXCEPT
                                 ![r] = Issue([@ EXCEPT
                                           !.pc = "verify",
                                           !.listingTitle = SheetsListingTitle(card)],
                                         Call("spreadsheets.get", NoRange))]
    /\ UNCHANGED <<tabs, environment, clients, stored>>

(***************************************************************************)
(* POST /export/sheets: the synchronous part up to the first service call. *)
(***************************************************************************)
SheetsStart(r) ==
    /\ req[r].pc = "idle"
    /\ \E body \in clients :
         LET cardId == body.cardId
             config == Config(environment)
             received == [req EXCEPT ![r].route = "sheets", ![r].body = body]
         IN  IF ~Truthy(cardId)
             THEN /\ req' = [received EXCEPT ![r] =
                                Reply(@, 400, "Card ID is required", undefined)]
                  /\ UNCHANGED cardsStore
             ELSE IF cardId \notin DOMAIN cardsStore
             THEN /\ req' = [received EXCEPT ![r] =
                                Reply(@, 404, "Card not found", undefined)]
                  /\ UNCHANGED cardsStore
             ELSE LET card == SwapCheck(cardsStore[cardId])
                      spreadsheetId == OrElse(config.spreadsheetId, body.spreadsheetId)
                      sheetName == OrElse(config.sheetName, OrElse(body.sheetName, "Cards"))
                      resolved == [received EXCEPT ![r].spreadsheetId = Str(spreadsheetId),
                                                   ![r].sheetName = sheetName]
                  IN  /\ cardsStore' = [cardsStore EXCEPT ![cardId] = card]
                      /\ IF ~Truthy(spreadsheetId)
                         THEN req' = [resolved EXCEPT ![r] =
                                 Reply(@, 400, "Google Sheets Spreadsheet ID is required. Set GOOGLE_SHEETS_SPREADSHEET_ID in .env or provide spreadsheetId in request.", undefined)]
                         ELSE IF ~config.credentials
                         THEN req' = [resolved EXCEPT ![r] =
                                 Reply(@, 500, CredentialsError(config.nodeEnv), undefined)]
                         ELSE req' = [resolved EXCEPT
                                 ![r] = Issue([@ EXCEPT
                                           !.pc = "verify",
                                           !.listingTitle = SheetsListingTitle(card)],
                                         Call("spreadsheets.get", NoRange))]
    /\ UNCHANGED <<tabs, environment, clients, stored>>

(***************************************************************************)
(* POST /export/sheets: one step per awaited service call. Each step is   *)
(* the service performing the call the handler issued, followed by the    *)
(* handler's code up to the next call it issues. A call may be rejected   *)
(* by the service (ok = FALSE).                                            *)
(***************************************************************************)

\* A verification step without its own catch: a failed lookup reaches the
\* catch block of the handler.
VerifySpreadsheetUncaught(r) ==
    /\ req[r].pc = "verify"
    /\ \E ok \in BOOLEAN :
         IF ok /\ req[r].spreadsheetId = TheSpreadsheet
         THEN req' = [req EXCEPT ![r] = Issue([@ EXCEPT !.pc = "getSheets"],
                                              Call("spreadsheets.get", NoRange))]
         ELSE req' = [req EXCEPT ![r] = Rejected(@, "spreadsheets.get rejected")]
    /\ UNCHANGED <<cardsStore, tabs, environment, clients, stored>>

\* A verification step that takes the sheets from the lookup it awaited and
\* skips the second lookup.
VerifySpreadsheetOnce(r) ==
    /\ req[r].pc = "verify"
    /\ \E ok \in BOOLEAN :
         IF ok /\ req[r].spreadsheetId = TheSpreadsheet
         THEN IF req[r].sheetName \in DOMAIN tabs
              THEN req' = [req EXCEPT ![r] = Issue([@ EXCEPT !.pc = "read"],
                                                   Call("values.get", NoRange))]
              ELSE req' = [req EXCEPT ![r] = Issue([@ EXCEPT !.pc = "addSheet"],
                                                   Call("batchUpdate.addSheet", NoRange))]
         ELSE req' = [req EXCEPT ![r] =
                         [Reply(@, 404, "Spreadsheet not found. Please check the spreadsheet ID: "
                                           \o req[r].spreadsheetId, undefined)
                            EXCEPT !.serviceFailed = ~ok]]
    /\ UNCHANGED <<cardsStore, tabs, environment, clients, stored>>

\* try { await sheets.spreadsheets.get(...) } catch { 404 }
VerifySpreadsheet(r) ==
    /\ req[r].pc = "verify"
    /\ \E ok \in BOOLEAN :
         IF ok /\ req[r].spreadsheetId = TheSpreadsheet
         THEN req' = [req EXCEPT ![r] = Issue([@ EXCEPT !.pc = "getSheets"],
                                              Call("spreadsheets.get", NoRange))]
         ELSE req' = [req EXCEPT ![r] =
                         [Reply(@, 404, "Spreadsheet not found. Please check the spreadsheet ID: "
                                           \o req[r].spreadsheetId, undefined)
                            EXCEPT !.serviceFailed = ~ok]]
    /\ UNCHANGED <<cardsStore, tabs, environment, clients, stored>>

\* A sheets lookup that is followed by the add-sheet request whether or not
\* the tab exists.
EnsureSheetTabAlwaysAdd(r) ==
    /\ req[r].pc = "getSheets"
    /\ \E ok \in BOOLEAN :
         IF ok
         THEN req' = [req EXCEPT ![r] = Issue([@ EXCEPT !.pc = "addSheet"],
                                              Call("batchUpdate.addSheet", NoRange))]
         ELSE req' = [req EXCEPT ![r] = Rejected(@, "spreadsheets.get rejected")]
    /\ UNCHANGED <<cardsStore, tabs, environment, clients, stored>>

\* The second spreadsheets.get and the sheetExists test.
EnsureSheetTab(r) ==
    /\ req[r].pc = "getSheets"
    /\ \E ok \in BOOLEAN :
         IF ok
         THEN IF req[r].sheetName \in DOMAIN tabs
              THEN req' = [req EXCEPT ![r] = Issue([@ EXCEPT !.pc = "read"],
                                                   Call("values.get", NoRange))]
              ELSE req' = [req EXCEPT ![r] = Issue([@ EXCEPT !.pc = "addSheet"],
                                                   Call("batchUpdate.addSheet", NoRange))]
         ELSE req' = [req EXCEPT ![r] = Rejected(@, "spreadsheets.get rejected")]
    /\ UNCHANGED <<cardsStore, tabs, environment, clients, stored>>

\* batchUpdate with the addSheet request; the service rejects a title that
\* a sheet of the spreadsheet already carries.
AddSheet(r) ==
    /\ req[r].pc = "addSheet"
    /\ \E ok \in BOOLEAN :
         IF ok /\ req[r].sheetName \notin DOMAIN tabs
         THEN /\ tabs' = [t \in DOMAIN tabs \cup {req[r].sheetName} |->
                             IF t \in DOMAIN tabs THEN tabs[t] ELSE <<>>]
              /\ req' = [req EXCEPT ![r] = Issue([@ EXCEPT !.pc = "read"],
                                                 Call("values.get", NoRange))]
         ELSE /\ req' = [req EXCEPT ![r] = Rejected(@, "batchUpdate rejected")]
              /\ UNCHANGED tabs
    /\ UNCHANGED <<cardsStore, environment, clients, stored>>

\* A read step that issues the header write, when one is due, before the row
\* is validated.
ReadHeaderAndDataHeaderFirst(r) ==
    /\ req[r].pc = "read"
    /\ \E ok \in BOOLEAN :
         IF ok
         THEN LET values == ValuesGet(tabs[req[r].sheetName])
                  nextRow == NextRow(values)
                  class == ClassifyHeaders(values)
                  card == cardsStore[req[r].body.cardId]
                  rowData == BuildRow(card, req[r].listingTitle, class.index)
                  error == RowError(rowData, class.index)
                  built == [req EXCEPT ![r].values = values,
                                       ![r].nextRow = nextRow,
                                       ![r].index = class.index,
                                       ![r].needsHeaderUpdate = class.needsHeaderUpdate,
                                       ![r].rowData = rowData]
              IN  IF nextRow = 1 \/ class.needsHeaderUpdate
                  THEN req' = [built EXCEPT ![r] = Issue([@ EXCEPT !.pc = "headerWrite"],
                                 Call("values.update",
                                      HeaderRange(req[r].sheetName, class.index)))]
                  ELSE IF error /= ""
                  THEN req' = [built EXCEPT ![r] = SheetsCatch(@, error)]
                  ELSE req' = [built EXCEPT ![r] = Issue([@ EXCEPT !.pc = "rowWrite"],
                                 Call("values.update",
                                      RowRange(req[r].sheetName, nextRow, class.index)))]
         ELSE req' = [req EXCEPT ![r] = Rejected(@, "values.get rejected")]
    /\ UNCHANGED <<cardsStore, tabs, environment, clients, stored>>

\* values.get, then nextRow, the header classification, the row and its
\* validation, up to the first values.update.
ReadHeaderAndData(r) ==
    /\ req[r].pc = "read"
    /\ \E ok \in BOOLEAN :
         IF ok
         THEN LET values == ValuesGet(tabs[req[r].sheetName])
                  nextRow == NextRow(values)
                  class == ClassifyHeaders(values)
                  card == cardsStore[req[r].body.cardId]
                  rowData == BuildRow(card, req[r].listingTitle, class.index)
                  error == RowError(rowData, class.index)
                  built == [req EXCEPT ![r].values = values,
                                       ![r].nextRow = nextRow,
                                       ![r].index = class.index,
                                       ![r].needsHeaderUpdate = class.needsHeaderUpdate,
                                       ![r].rowData = rowData]
              IN  IF error /= ""
                  THEN req' = [built EXCEPT ![r] = SheetsCatch(@, error)]
                  ELSE IF nextRow = 1 \/ class.needsHeaderUpdate
                  THEN req' = [built EXCEPT ![r] = Issue([@ EXCEPT !.pc = "headerWrite"],
                                 Call("values.update",
                                      HeaderRange(req[r].sheetName, class.index)))]
                  ELSE req' = [built EXCEPT ![r] = Issue([@ EXCEPT !.pc = "rowWrite"],
                                 Call("values.update",
                                      RowRange(req[r].sheetName, nextRow, class.index)))]
         ELSE req' = [req EXCEPT ![r] = Rejected(@, "values.get rejected")]
    /\ UNCHANGED <<cardsStore, tabs, environment, clients, stored>>

\* values.update of the header range, then the row range is computed.
WriteHeader(r) ==
    /\ req[r].pc = "headerWrite"
    /\ \E ok \in BOOLEAN :
         IF ok
         THEN /\ tabs' = [tabs EXCEPT ![req[r].sheetName] =
                             ValuesUpdate(@, 1, Headers(req[r].index))]
              /\ req' = [req EXCEPT ![r] = Issue([@ EXCEPT !.pc = "rowWrite"],
                             Call("values.update",
                                  RowRange(req[r].sheetName, req[r].nextRow, req[r].index)))]
         ELSE /\ req' = [req EXCEPT ![r] = Rejected(@, "values.update rejected")]
              /\ UNCHANGED tabs
    /\ UNCHANGED <<cardsStore, environment, clients, stored>>

\* A row write that appends after the last row of the tab instead of
\* updating the computed range.
WriteRowAppend(r) ==
    /\ req[r].pc = "rowWrite"
    /\ \E ok \in BOOLEAN :
         IF ok
         THEN /\ tabs' = [tabs EXCEPT ![req[r].sheetName] =
                             ValuesUpdate(@, Len(ValuesGet(@)) + 1, req[r].rowData)]
              /\ req' = [req EXCEPT ![r] = Success(@)]
         ELSE /\ req' = [req EXCEPT ![r] = Rejected(@, "values.update rejected")]
              /\ UNCHANGED tabs
    /\ UNCHANGED <<cardsStore, environment, clients, stored>>

\* values.update of the row range, then the 200 response.
WriteRow(r) ==
    /\ req[r].pc = "rowWrite"
    /\ \E ok \in BOOLEAN :
         IF ok
         THEN /\ tabs' = [tabs EXCEPT ![req[r].sheetName] =
                             ValuesUpdate(@, req[r].nextRow, req[r].rowData)]
              /\ req' = [req EXCEPT ![r] = Success(@)]
         ELSE /\ req' = [req EXCEPT ![r] = Rejected(@, "values.update rejected")]
              /\ UNCHANGED tabs
    /\ UNCHANGED <<cardsStore, environment, clients, stored>>

(***************************************************************************)
(* Inputs: texts, card records, header rows and initial states.           *)
(***************************************************************************)

\* The number of concurrent requests.
MaxRequests == 2

RECURSIVE Repeat(_, _)
\* n copies of s
Repeat(s, n) ==
    IF n = 0
    THEN ""
    ELSE LET half == Repeat(s, n \div 2)
         IN  IF n % 2 = 0 THEN half \o half ELSE half \o half \o s

Title31 == "2020 Topps #42 Mike Trout PSA 9"

Desc60 == "Great card in mint condition, sharp corners, clean surfaces."

Desc300 == Repeat("Great card in mint condition. ", 10)

\* 180 characters: a title, a name boundary and the start of Desc300.
Embedded180 == Title31 \o ", Mike Trout " \o SubSeq(Desc300, 1, 136)

\* 180 characters: a title and the start of Desc300, no name boundary.
Unbounded180 == Title31 \o " " \o SubSeq(Desc300, 1, 148)

\* 250 characters that start with a name boundary and embed Desc300.
Boundary250 == ", Mike Trout " \o SubSeq(Desc300, 1, 237)

Blank == "   "

AutoTitles ==
    {undefined, "", Blank, Title31, Desc60, Desc300, Embedded180, Unbounded180,
     Boundary250, Repeat("x", 200), Repeat("x", 201)}

AutoDescriptions ==
    {undefined, "", Blank, "Card", "Untitled", Title31, Desc60, Desc300,
     Repeat("y", 99), Repeat("y", 100)}

NormalizedTitles == {"", "Card", Title31, Desc60}

\* A card record with the given texts; the other normalized fields are fixed,
\* cert being one that the extraction stage left unset.
Card(autoTitle, autoDescription, title) ==
    [autoTitle |-> autoTitle,
     autoDescription |-> autoDescription,
     normalized |-> [year |-> "2020", set |-> "Topps", cardNumber |-> "42",
                     title |-> title, playerFirstName |-> "Mike",
                     playerLastName |-> "Trout", gradingCompany |-> "PSA",
                     grade |-> "9", cert |-> undefined,
                     caption |-> "Mike Trout PSA 9"]]

Cards ==
    {Card(t, d, n) : t \in AutoTitles, d \in AutoDescriptions, n \in NormalizedTitles}

\* A record with the swap defect, a sound record, and one still waiting for
\* its generated texts.
SwappedCard == Card(Desc300, Desc60, Title31)
SoundCard == Card(Title31, Desc300, Title31)
PendingCard == Card(undefined, undefined, Title31)

\* A second sound record, of another card.
OtherCard ==
    [Card("2019 Bowman #7 Juan Soto BGS 10", Repeat("Sharp rookie card. ", 12),
          "2019 Bowman #7 Juan Soto BGS 10")
       EXCEPT !.normalized.year = "2019", !.normalized.set = "Bowman"]

\* Records around the swap thresholds.
FewCards ==
    {SwappedCard, SoundCard, PendingCard,
     Card(Desc300, "", Title31), Card(Desc300, Blank, Title31),
     Card(Repeat("x", 201), Repeat("y", 99), ""),
     Card(Repeat("x", 200), Repeat("y", 99), ""),
     Card(Repeat("x", 201), Repeat("y", 100), "")}

\* The data row an export of SoundCard leaves in an 11-column tab.
SoundRow == BuildRow(SoundCard, Title31, 10)

\* First rows a tab may hold.
HeaderRows ==
    {ExpectedHeaders,
     Headers(11),
     SubSeq(ExpectedHeaders, 1, 10) \o <<"Auto Description", "Auto Description">>,
     SubSeq(ExpectedHeaders, 1, 10) \o <<"Notes", "Auto Description">>,
     SubSeq(ExpectedHeaders, 1, 10) \o <<"Auto Title", "Notes">>,
     SubSeq(ExpectedHeaders, 1, 10) \o <<"Auto Title">>,
     Headers(11) \o <<"Extra">>,
     SubSeq(ExpectedHeaders, 1, 10),
     <<"Year">>,
     <<>>,
     SoundRow,
     BuildRow(SoundCard, Title31, 11)}

\* Grids with the given first row and zero or one data row below it.
GridsWith(h) ==
    {g \in {<<h>>, <<h, SoundRow>>} : ValuesGet(g) /= <<>> \/ h = <<>>}

\* The process environment of a deployment configured for TheSpreadsheet.
Configured ==
    [NODE_ENV |-> undefined,
     GOOGLE_SHEETS_SPREADSHEET_ID |-> TheSpreadsheet,
     GOOGLE_SHEETS_SHEET_NAME |-> undefined,
     credentials |-> TRUE]

(***************************************************************************)
(* ReviewPage: the effect that loads the card data and polls for the      *)
(* autoTitle. A step is a tick of the interval up to its await, the       *)
(* continuation of a getCard that resolved or was rejected, or the        *)
(* cleanup of the effect.                                                  *)
(***************************************************************************)

\* const maxPolls = 15
maxPolls == 15

\* The period of the interval, in milliseconds.
PollPeriod == 2000

\* cardData.autoTitle && cardData.autoTitle.trim() !== ""
HasTitle(card) == Truthy(card.autoTitle) /\ Trim(card.autoTitle) /= ""

\* sessionStorage.getItem("cardData") when nothing is stored.
NoCardData == [present |-> FALSE, autoTitle |-> undefined, autoDescription |-> undefined]

\* No getCard has resolved: the callback holds no card.
NoCard == [autoTitle |-> undefined, autoDescription |-> undefined]

\* The page when no review page is open.
NoPage ==
    [mounted |-> FALSE, pollInterval |-> "cleared", pollCount |-> 0,
     hasAutoTitleRef |-> FALSE, autoTitle |-> "", inFlight |-> 0, card |-> NoCard,
     currentCardId |-> undefined, cardData |-> NoCardData]

\* What sessionStorage holds under "cardData": nothing, or the card data
\* the upload page has stored.
StoredCardData ==
    {NoCardData} \cup
    [present : {TRUE}, autoTitle : {undefined, Blank, Title31},
     autoDescription : {undefined, Desc60}]

\* What getCard resolves to.
GetCardResults ==
    [autoTitle : {undefined, "", Blank, Title31}, autoDescription : {undefined, Desc60}]

\* The page after the effect has run: loadCardData and setInterval.
Mounted(cardData, cardId) ==
    LET loaded == cardData.present /\ HasTitle(cardData)
    IN  [mounted |-> TRUE, pollInterval |-> "active", pollCount |-> 0,
         hasAutoTitleRef |-> loaded,
         autoTitle |-> IF loaded THEN cardData.autoTitle ELSE "",
         inFlight |-> 0, card |-> NoCard, currentCardId |-> cardId,
         cardData |-> cardData]

\* A tick that stops only after maxPolls has been exceeded.
PollTickLate ==
    /\ page.pollInterval = "active"
    /\ LET pollCount == page.pollCount + 1
       IN  IF pollCount > maxPolls \/ page.hasAutoTitleRef
           THEN page' = [page EXCEPT !.pollCount = pollCount, !.pollInterval = "cleared"]
           ELSE IF Truthy(page.currentCardId)
           THEN page' = [page EXCEPT !.pollCount = pollCount, !.inFlight = @ + 1]
           ELSE page' = [page EXCEPT !.pollCount = pollCount]
    /\ UNCHANGED <<cardsStore, tabs, environment, clients, req, stored>>

\* The interval callback up to `await getCard(cardId)`.
PollTick ==
    /\ page.pollInterval = "active"
    /\ LET pollCount == page.pollCount + 1
       IN  IF pollCount >= maxPolls \/ page.hasAutoTitleRef
           THEN page' = [page EXCEPT !.pollCount = pollCount, !.pollInterval = "cleared"]
           ELSE IF Truthy(page.currentCardId)
           THEN page' = [page EXCEPT !.pollCount = pollCount, !.inFlight = @ + 1]
           ELSE page' = [page EXCEPT !.pollCount = pollCount]
    /\ UNCHANGED <<cardsStore, tabs, environment, clients, req, stored>>

\* The continuation of a getCard that resolved.
GetCardResolved ==
    /\ page.inFlight > 0
    /\ \E card \in GetCardResults :
         LET hasNewTitle == HasTitle(card)
             hasNewDescription ==
                 Truthy(card.autoDescription) /\ Trim(card.autoDescription) /= ""
             cardData ==
                 IF ~page.cardData.present
                 THEN NoCardData
                 ELSE [present |-> TRUE,
                       autoTitle |-> IF hasNewTitle THEN card.autoTitle
                                     ELSE page.cardData.autoTitle,
                       autoDescription |-> IF hasNewDescription THEN card.autoDescription
                                           ELSE page.cardData.autoDescription]
         IN  page' = [page EXCEPT
                        !.inFlight = @ - 1,
                        !.card = card,
                        !.cardData = cardData,
                        !.hasAutoTitleRef = @ \/ hasNewTitle,
                        !.autoTitle = IF hasNewTitle /\ page.mounted
                                      THEN card.autoTitle ELSE @,
                        !.pollInterval = IF hasNewTitle THEN "cleared" ELSE @]
    /\ UNCHANGED <<cardsStore, tabs, environment, clients, req, stored>>

\* The catch of a getCard that was rejected.
GetCardRejected ==
    /\ page.inFlight > 0
    /\ page' = [page EXCEPT !.inFlight = @ - 1, !.card = NoCard]
    /\ UNCHANGED <<cardsStore, tabs, environment, clients, req, stored>>

\* The cleanup of the effect when the page unmounts.
Unmount ==
    /\ page.mounted
    /\ page' = [page EXCEPT !.mounted = FALSE, !.pollInterval = "cleared"]
    /\ UNCHANGED <<cardsStore, tabs, environment, clients, req, stored>>

Body(cardId) ==
    [cardId |-> cardId, spreadsheetId |-> undefined, sheetName |-> undefined]

\* The spreadsheet without the tab, or the tab with one of the given grids.
TabStates(grids) == {<<>>} \cup {[t \in {"Cards"} |-> g] : g \in grids}

InitWith(cards, grids, n) ==
    /\ \E card \in cards : cardsStore = [c1 |-> card, c2 |-> OtherCard]
    /\ stored = cardsStore
    /\ tabs \in TabStates(grids)
    /\ environment = Configured
    /\ clients = {Body("c1"), Body("c2")}
    /\ req = [r \in 1..n |-> Idle]
    /\ page = NoPage

\* A record whose two texts are the last-resort literal of the /csv handler,
\* without a normalized title.
UntitledCard == Card("Untitled", "Untitled", "")

\* Concurrent requests on one card and one tab.
Init == InitWith(FewCards, {<<ExpectedHeaders, SoundRow>>}, MaxRequests)

\* One request, every card record.
InitCards ==
    InitWith(Cards \cup {UntitledCard}, {<<>>, <<ExpectedHeaders>>, <<Headers(11), SoundRow>>}, 1)

\* One request, every first row.
InitHeaders == InitWith({SoundCard, PendingCard}, UNION {GridsWith(h) : h \in HeaderRows}, 1)

\* Process environments: deployment mode, configured spreadsheet and tab,
\* credentials found or not.
Environments ==
    [NODE_ENV : {undefined, "production", "test"},
     GOOGLE_SHEETS_SPREADSHEET_ID : {undefined, TheSpreadsheet},
     GOOGLE_SHEETS_SHEET_NAME : {undefined, "Export"},
     credentials : BOOLEAN]

\* Request bodies: card id missing, stored or unknown; spreadsheet id missing,
\* known or unknown to the service; tab name given or not.
Bodies ==
    [cardId : {undefined, "c1", "c9"},
     spreadsheetId : {undefined, TheSpreadsheet, "sheet-404"},
     sheetName : {undefined, "Mine"}]

\* A record whose title is longer than its description.
LongTitleCard == Card(Title31, "Card", Title31)

\* One request, every environment and request body.
InitRequests ==
    /\ \E card \in {SoundCard, LongTitleCard} :
           cardsStore = [c1 |-> card, c2 |-> OtherCard]
    /\ stored = cardsStore
    /\ tabs \in TabStates({<<ExpectedHeaders, SoundRow>>, <<Headers(11), SoundRow>>})
    /\ environment \in Environments
    /\ clients = Bodies
    /\ req = [r \in 1..1 |-> Idle]
    /\ page = NoPage

Next ==
    \/ \E r \in Requests : CsvExport(r) /\ UNCHANGED page
    \/ \E r \in Requests : SheetsStart(r) /\ UNCHANGED page
    \/ \E r \in Requests : VerifySpreadsheet(r) /\ UNCHANGED page
    \/ \E r \in Requests : EnsureSheetTab(r) /\ UNCHANGED page
    \/ \E r \in Requests : AddSheet(r) /\ UNCHANGED page
    \/ \E r \in Requests : ReadHeaderAndData(r) /\ UNCHANGED page
    \/ \E r \in Requests : WriteHeader(r) /\ UNCHANGED page
    \/ \E r \in Requests : WriteRow(r) /\ UNCHANGED page

Spec == Init /\ [][Next]_vars

SpecCards == InitCards /\ [][Next]_vars

SpecHeaders == InitHeaders /\ [][Next]_vars

SpecRequests == InitRequests /\ [][Next]_vars

\* The number of exports a client sends one after the other.
MaxExports == 2

\* Exports one after the other to a tab that is missing, empty or headed by
\* any of the header rows.
InitSequential ==
    InitWith({SoundCard}, {<<>>} \cup UNION {GridsWith(h) : h \in HeaderRows}, MaxExports)

\* The client sends request r after it has the responses of the requests
\* before r.
InOrder(r) == \A q \in 1..(r - 1) : req[q].pc = "done"

NextSequential ==
    \/ \E r \in Requests : InOrder(r) /\ CsvExport(r) /\ UNCHANGED page
    \/ \E r \in Requests : InOrder(r) /\ SheetsStart(r) /\ UNCHANGED page
    \/ \E r \in Requests : InOrder(r) /\ VerifySpreadsheet(r) /\ UNCHANGED page
    \/ \E r \in Requests : InOrder(r) /\ EnsureSheetTab(r) /\ UNCHANGED page
    \/ \E r \in Requests : InOrder(r) /\ AddSheet(r) /\ UNCHANGED page
    \/ \E r \in Requests : InOrder(r) /\ ReadHeaderAndData(r) /\ UNCHANGED page
    \/ \E r \in Requests : InOrder(r) /\ WriteHeader(r) /\ UNCHANGED page
    \/ \E r \in Requests : InOrder(r) /\ WriteRow(r) /\ UNCHANGED page

SpecSequential == InitSequential /\ [][NextSequential]_vars

\* A review page that has just mounted, no export under way.
InitPoller ==
    /\ cardsStore = [c1 |-> PendingCard]
    /\ stored = cardsStore
    /\ tabs = <<>>
    /\ environment = Configured
    /\ clients = {}
    /\ req = <<>>
    /\ \E cardData \in StoredCardData, cardId \in {undefined, "c1"} :
          page = Mounted(cardData, cardId)

NextPoller ==
    \/ PollTick
    \/ GetCardResolved
    \/ GetCardRejected
    \/ Unmount

\* The timer fires as long as the interval is not cleared.
SpecPoller == InitPoller /\ [][NextPoller]_vars /\ WF_vars(PollTick)

(***************************************************************************)
(* Properties.                                                             *)
(***************************************************************************)

Sheets(r) == req[r].route = "sheets"

Csv(r) == req[r].route = "csv"

Done(r, code) == req[r].pc = "done" /\ req[r].status = code

\* The handler of r has built its row.
Built(r) == Sheets(r) /\ req[r].rowData /= <<>>

\* The cells of the built row.
TitleCell(r) == req[r].rowData[4]

DescriptionCell(r) == req[r].rowData[req[r].index + 1]

\* The ranges of the values.update calls r has issued, in order.
UpdateRanges(r) ==
    LET RECURSIVE Ranges(_)
        Ranges(calls) ==
            IF calls = <<>>
            THEN <<>>
            ELSE IF Head(calls).method = "values.update"
                 THEN <<Head(calls).range>> \o Ranges(Tail(calls))
                 ELSE Ranges(Tail(calls))
    IN  Ranges(req[r].calls)

\* The record the upstream pipeline stored for the card r exports.
StoredCard(r) == stored[req[r].body.cardId]

\* C1: a successful Sheets export to a tab without rows writes the 11-column
\* header to A1:K1 and the data row to A2:K2, and with an empty autoTitle the
\* Listing Title cell of the row is normalized.title.
C1_DataRowBelowHeader ==
    \A r \in Requests :
        (Sheets(r) /\ Done(r, 200) /\ req[r].values = <<>>) =>
            /\ UpdateRanges(r) = <<[sheet |-> req[r].sheetName, row |-> 1, endColumn |-> "K"],
                                   [sheet |-> req[r].sheetName, row |-> 2, endColumn |-> "K"]>>
            /\ ~Truthy(StoredCard(r).autoTitle) =>
                   TitleCell(r) = StoredCard(r).normalized.title

\* C2: the Listing Title exported by /export/csv and /export/sheets differs
\* from the exported Auto Description whenever that description is not empty.
C2_TitleNeverDescription ==
    \A r \in Requests :
        /\ (Csv(r) /\ Done(r, 200) /\ req[r].response.csv[2][11] /= "") =>
               req[r].response.csv[2][4] /= req[r].response.csv[2][11]
        /\ (Sheets(r) /\ Done(r, 200) /\ DescriptionCell(r) /= "") =>
               TitleCell(r) /= DescriptionCell(r)

\* C3: whenever the exported Listing Title and Auto Description are both
\* non-empty, the title is not longer than the description, on both paths.
C3_TitleNotLonger ==
    \A r \in Requests :
        /\ (Csv(r) /\ Done(r, 200) /\ req[r].response.csv[2][4] /= ""
                /\ req[r].response.csv[2][11] /= "") =>
               Len(req[r].response.csv[2][4]) <= Len(req[r].response.csv[2][11])
        /\ (Sheets(r) /\ Truthy(req[r].listingTitle)
                /\ Truthy(cardsStore[req[r].body.cardId].autoDescription)) =>
               Len(req[r].listingTitle) <=
                   Len(cardsStore[req[r].body.cardId].autoDescription)

\* C4: an export of a stored card with a resolvable spreadsheet ends with 200
\* unless the spreadsheet service rejected one of its calls.
C4_ContentNeverFails ==
    \A r \in Requests :
        (req[r].pc = "done" /\ ~req[r].serviceFailed) => req[r].status = 200

\* C5 as stated: every row handed to the row write has a Listing Title cell
\* that differs from, and is not longer than, its description cell, empty
\* cells included.
C5_EveryRowChecked ==
    \A r \in Requests :
        (Built(r) /\ (req[r].pc \in {"headerWrite", "rowWrite"} \/ Done(r, 200))) =>
            /\ TitleCell(r) /= DescriptionCell(r)
            /\ Len(TitleCell(r)) <= Len(DescriptionCell(r))

\* The built row of r has both cells non-empty and fails one of the checks.
RowViolation(r) ==
    /\ TitleCell(r) /= ""
    /\ DescriptionCell(r) /= ""
    /\ \/ TitleCell(r) = DescriptionCell(r)
       \/ Len(TitleCell(r)) > Len(DescriptionCell(r))

\* C5 amended: a built row whose Listing Title and description cells are both
\* non-empty and that violates either check ends the request with the
\* validation error before any cell write; every row handed to the row write
\* with both cells non-empty satisfies both checks; a row with an empty cell
\* is exempt.
C5_NonEmptyRowChecked ==
    \A r \in Requests :
        Built(r) =>
            IF RowViolation(r)
            THEN Done(r, 500) /\ UpdateRanges(r) = <<>> /\ ~req[r].serviceFailed
            ELSE Done(r, 500) => req[r].serviceFailed

\* C5 witness: a row with a title longer than its description was rejected.
C5_Witness ==
    \E r \in Requests :
        /\ Built(r) /\ Done(r, 500) /\ ~req[r].serviceFailed
        /\ DescriptionCell(r) /= ""
        /\ Len(TitleCell(r)) > Len(DescriptionCell(r))

\* The requests whose handler has run the swap check on card c.
Passes(c) == {r \in Requests : req[r].pc /= "idle" /\ req[r].body.cardId = c}

\* The Listing Title r has exported, for a request that ended with 200.
ExportedTitle(r) == IF Csv(r) THEN req[r].response.csv[2][4] ELSE TitleCell(r)

\* The stored record with its two generated texts exchanged.
Exchanged(card) ==
    [autoTitle |-> card.autoDescription, autoDescription |-> card.autoTitle,
     normalized |-> card.normalized]

\* len(autoTitle) > 200 and len(autoDescription) < 100, for texts that are set.
LengthsSwapped(card) ==
    /\ card.autoTitle /= undefined
    /\ card.autoDescription /= undefined
    /\ Len(card.autoTitle) > 200
    /\ Len(card.autoDescription) < 100

\* C6 as stated: for every record with len(autoTitle) > 200 and
\* len(autoDescription) < 100, once a validator pass has run the store holds
\* the record with the two texts exchanged, further passes leave it so, and
\* the exported Listing Title is the short text.
C6_SwapOnLengths ==
    \A c \in DOMAIN stored :
        (LengthsSwapped(stored[c]) /\ Passes(c) /= {}) =>
            /\ cardsStore[c] = Exchanged(stored[c])
            /\ \A r \in Passes(c) :
                   Done(r, 200) => ExportedTitle(r) = stored[c].autoDescription

\* C6 amended: the same, for records whose autoDescription is not empty;
\* the exported Listing Title is the short text when that text is not blank.
C6_SwapOnLengthsNonEmpty ==
    \A c \in DOMAIN stored :
        (LengthsSwapped(stored[c]) /\ stored[c].autoDescription /= ""
            /\ Passes(c) /= {}) =>
            /\ cardsStore[c] = Exchanged(stored[c])
            /\ \A r \in Passes(c) :
                   (Done(r, 200) /\ Trim(stored[c].autoDescription) /= "") =>
                       ExportedTitle(r) = stored[c].autoDescription

\* C6 witness: two passes have run on a record that had the swap defect, one
\* of them exported it, and the store holds the exchanged record.
C6_Witness ==
    \E c \in DOMAIN stored :
        /\ LengthsSwapped(stored[c]) /\ stored[c].autoDescription /= ""
        /\ Cardinality(Passes(c)) >= 2
        /\ \E r \in Passes(c) :
               Done(r, 200) /\ ExportedTitle(r) = stored[c].autoDescription
        /\ cardsStore[c] = Exchanged(stored[c])

\* C7: a row write whose row number an earlier successful export has already
\* reported replaces what that row holds by its own row and is answered with
\* 200 and the same row number.
C7_LastWriteWins ==
    [][\A r \in Requests :
          (/\ req[r].pc = "rowWrite"
           /\ req'[r].pc = "done" /\ req'[r].status = 200
           /\ \E q \in Requests \ {r} :
                 /\ Sheets(q) /\ Done(q, 200)
                 /\ req[q].sheetName = req[r].sheetName
                 /\ req[q].response.row = req[r].nextRow) =>
              /\ req'[r].response.row = req[r].nextRow
              /\ SubSeq(tabs'[req[r].sheetName][req[r].nextRow], 1, Len(req[r].rowData))
                     = req[r].rowData]_vars

\* C7 witness: two exports of different cards have both ended with 200 and
\* the same row number, and that row holds the row of only one of them.
C7_Witness ==
    \E r, q \in Requests :
        /\ r /= q
        /\ Sheets(r) /\ Done(r, 200) /\ Sheets(q) /\ Done(q, 200)
        /\ req[r].sheetName = req[q].sheetName
        /\ req[r].response.row = req[q].response.row
        /\ req[r].rowData /= req[q].rowData
        /\ tabs[req[r].sheetName][req[r].response.row] = req[r].rowData
        /\ \A i \in 1..Len(tabs[req[r].sheetName]) :
               tabs[req[r].sheetName][i] /= req[q].rowData

\* C8: once two validator passes have run on a record that had the swap
\* defect, in any interleaving of the two requests, the store holds the
\* record with the two texts exchanged exactly once.
C8_ConcurrentPassesSwapOnce ==
    \A c \in DOMAIN stored :
        (/\ LengthsSwapped(stored[c]) /\ stored[c].autoDescription /= ""
         /\ Cardinality(Passes(c)) >= 2) =>
            /\ cardsStore[c].autoTitle = stored[c].autoDescription
            /\ cardsStore[c].autoDescription = stored[c].autoTitle
            /\ cardsStore[c].normalized = stored[c].normalized

\* C8 witness: a CSV pass and a Sheets pass have both run on a record that
\* had the swap defect while the Sheets request is still in flight.
C8_Witness ==
    \E c \in DOMAIN stored :
        /\ LengthsSwapped(stored[c]) /\ stored[c].autoDescription /= ""
        /\ \E r, q \in Passes(c) :
               /\ Csv(r) /\ Sheets(q) /\ req[q].pc \notin {"idle", "done"}
        /\ cardsStore[c].autoTitle = stored[c].autoDescription

\* The request has read the tab and classified its first row.
Classified(r) == Sheets(r) /\ req[r].nextRow > 0

\* The decision table, first match wins; flagWhenAbsent is the flag of the
\* first line (no header row).
DecisionTable(values, flagWhenAbsent) ==
    IF values = <<>>
    THEN <<10, flagWhenAbsent>>
    ELSE LET h == values[1]
         IN  IF h = <<>>
             THEN <<10, TRUE>>
             ELSE IF Len(h) = 12 /\ h[12] = "Auto Description"
                     /\ h[11] \in {"Auto Title", "Auto Description"}
             THEN <<11, h[11] = "Auto Description">>
             ELSE IF Len(h) = 12 /\ h[12] = "Auto Description"
             THEN <<11, TRUE>>
             ELSE IF Len(h) = 11 /\ h[11] = "Auto Description"
             THEN <<10, FALSE>>
             ELSE <<IF Len(h) > 11 THEN 11 ELSE 10, TRUE>>

\* C9 as stated: the description column index and the header flag are those
\* of the decision table, an absent header row giving index 10 and flag true.
C9_TableAsStated ==
    \A r \in Requests :
        Classified(r) =>
            <<req[r].index, req[r].needsHeaderUpdate>> = DecisionTable(req[r].values, TRUE)

\* C9 amended: the same table, except that a tab without rows gives index 10
\* and flag false (its header is written because nextRow = 1).
C9_TableWithAbsentFalse ==
    \A r \in Requests :
        Classified(r) =>
            <<req[r].index, req[r].needsHeaderUpdate>> = DecisionTable(req[r].values, FALSE)

\* C9 witness: a 12-column header with "Auto Description" in both K and L was
\* classified.
C9_Witness ==
    \E r \in Requests :
        /\ Classified(r) /\ req[r].values /= <<>>
        /\ Len(req[r].values[1]) = 12
        /\ req[r].values[1][11] = "Auto Description"
        /\ req[r].values[1][12] = "Auto Description"
        /\ req[r].index = 11 /\ req[r].needsHeaderUpdate

\* The values.update ranges r has issued all end at the given column.
RangesEndAt(r, column) ==
    \A i \in 1..Len(UpdateRanges(r)) : UpdateRanges(r)[i].endColumn = column

\* C10: when the header row read has exactly 11 columns, the row built and
\* every range written are 11 columns wide (A:K) and the header row stays 11
\* columns wide; when it has exactly 12, they are 12 wide (A:L).
C10_WidthKept ==
    \A r \in Requests :
        (Classified(r) /\ req[r].values /= <<>>) =>
            LET width == Len(req[r].values[1])
            IN  /\ width = 11 =>
                       /\ Len(req[r].rowData) = 11 /\ RangesEndAt(r, "K")
                       /\ Done(r, 200) =>
                              Len(ValuesGet(tabs[req[r].sheetName])[1]) = 11
                /\ width = 12 =>
                       /\ Len(req[r].rowData) = 12 /\ RangesEndAt(r, "L")
                       /\ Done(r, 200) =>
                              Len(ValuesGet(tabs[req[r].sheetName])[1]) = 12

\* C10 witness: an export to a tab whose 11-column header row does not end
\* with "Auto Description" has rewritten the header and written its row.
C10_Witness ==
    \E r \in Requests :
        /\ Classified(r) /\ Done(r, 200) /\ req[r].values /= <<>>
        /\ Len(req[r].values[1]) = 11
        /\ req[r].values[1][11] /= "Auto Description"
        /\ Len(UpdateRanges(r)) = 2

\* The row validation of r has failed: the built row violates a check, or the
\* request ended with 500 after the row was built without a rejected call.
ValidationFailed(r) ==
    /\ Built(r)
    /\ RowViolation(r) \/ (Done(r, 500) /\ ~req[r].serviceFailed)

\* C11: when the validation of the built row fails, the request has issued no
\* values.update, neither for the header range nor for the row range, the
\* cells of the tab are the cells the request read, and the request has ended,
\* so that no write follows.
C11_NoPartialWrite ==
    \A r \in Requests :
        ValidationFailed(r) =>
            /\ Done(r, 500)
            /\ \A i \in 1..Len(req[r].calls) : req[r].calls[i].method /= "values.update"
            /\ ValuesGet(tabs[req[r].sheetName]) = req[r].values

\* C11 witness: the validation failed on a tab without rows, where the header
\* write was due.
C11_Witness ==
    \E r \in Requests :
        /\ ValidationFailed(r) /\ req[r].pc = "done"
        /\ req[r].nextRow = 1
        /\ tabs[req[r].sheetName] = <<>>

\* The text a cell holds for a value of the record: "" for an absent value.
CellOf(value) == IF value = undefined THEN "" ELSE value

Methods(r) == [i \in 1..Len(req[r].calls) |-> req[r].calls[i].method]

\* The call sequences of a complete Sheets export: the verifying lookup, the
\* lookup of the sheets, the add-sheet request when the tab is missing, the
\* read, the header write when one is due, the row write.
Runs ==
    LET lookups == <<"spreadsheets.get", "spreadsheets.get">>
    IN  {lookups \o add \o <<"values.get">> \o header \o <<"values.update">> :
            add \in {<<>>, <<"batchUpdate.addSheet">>},
            header \in {<<>>, <<"values.update">>}}

\* The calls of r are the first calls of a complete export, and the position
\* of the handler is the call it awaits.
CallOrder(r) ==
    /\ \E run \in Runs :
          /\ Len(Methods(r)) <= Len(run)
          /\ Methods(r) = SubSeq(run, 1, Len(Methods(r)))
    /\ req[r].pc = "verify" => Methods(r) = <<"spreadsheets.get">>
    /\ req[r].pc = "getSheets" => Len(Methods(r)) = 2
    /\ req[r].pc = "addSheet" => Methods(r)[Len(Methods(r))] = "batchUpdate.addSheet"
    /\ req[r].pc = "read" => Methods(r)[Len(Methods(r))] = "values.get"
    /\ req[r].pc \in {"headerWrite", "rowWrite"} =>
           Methods(r)[Len(Methods(r))] = "values.update"
    /\ Done(r, 200) => Methods(r) \in Runs

\* C13 as stated: the calls of a Sheets export come in the order lookup,
\* sheets lookup, add-sheet, read, header write, row write, and while the
\* header write is awaited the row has not been built yet.
C13_HeaderBeforeBuild ==
    \A r \in Requests :
        Sheets(r) =>
            /\ CallOrder(r)
            /\ req[r].pc = "headerWrite" => ~Built(r)

\* C13 amended: the calls of a Sheets export come in the order lookup, sheets
\* lookup, add-sheet, read, header write, row write; the header is classified
\* and the row built only after the read, in one step; and every cell write,
\* the header write included, is issued after the row was built and has
\* passed its validation.
C13_BuildBeforeHeader ==
    \A r \in Requests :
        Sheets(r) =>
            /\ CallOrder(r)
            /\ Classified(r) => \E i \in 1..Len(Methods(r)) : Methods(r)[i] = "values.get"
            /\ Built(r) <=> Classified(r)
            /\ req[r].pc \in {"headerWrite", "rowWrite"} \/ UpdateRanges(r) /= <<>> =>
                   Built(r) /\ ~RowViolation(r)
            /\ Len(UpdateRanges(r)) = 2 =>
                   /\ UpdateRanges(r)[1].row = 1
                   /\ UpdateRanges(r)[2].row = req[r].nextRow

\* C13 witness: a request awaits the header write of a tab it has added, with
\* its row built and valid.
C13_Witness ==
    \E r \in Requests :
        /\ req[r].pc = "headerWrite"
        /\ Built(r) /\ ~RowViolation(r)
        /\ Methods(r) = <<"spreadsheets.get", "spreadsheets.get",
                          "batchUpdate.addSheet", "values.get", "values.update">>

\* The header write is due for r: the tab had no rows, or the classifier has
\* flagged the header.
HeaderDue(r) == req[r].nextRow = 1 \/ req[r].needsHeaderUpdate

\* The range and the cells of the header write for a description index.
HeaderWrite(sheetName, index) ==
    IF index = 11
    THEN [range |-> [sheet |-> sheetName, row |-> 1, endColumn |-> "L"],
          cells |-> <<"Year", "Set", "Card Number", "Listing Title",
                      "Player First Name", "Player Last Name", "Grading Company",
                      "Grade", "Cert", "Listing Caption", "Auto Title",
                      "Auto Description">>]
    ELSE [range |-> [sheet |-> sheetName, row |-> 1, endColumn |-> "K"],
          cells |-> <<"Year", "Set", "Card Number", "Listing Title",
                      "Player First Name", "Player Last Name", "Grading Company",
                      "Grade", "Cert", "Listing Caption", "Auto Description">>]

\* C14: a Sheets export whose row has passed validation issues the header
\* write exactly when nextRow = 1 or the classifier has flagged the header;
\* the write goes to A1:K1 with the 11 column names when the description index
\* is 10 and to A1:L1 with the 12 column names, Auto Title at K and Auto
\* Description at L, when it is 11, and it precedes the row write.
C14_HeaderWrittenWhenDue ==
    \A r \in Requests :
        LET expected == HeaderWrite(req[r].sheetName, req[r].index)
        IN  /\ req[r].pc = "headerWrite" =>
                   HeaderDue(r) /\ UpdateRanges(r) = <<expected.range>>
            /\ Sheets(r) /\ (req[r].pc = "rowWrite" \/ Done(r, 200)) =>
                   IF HeaderDue(r)
                   THEN /\ Len(UpdateRanges(r)) = 2
                        /\ UpdateRanges(r)[1] = expected.range
                   ELSE /\ Len(UpdateRanges(r)) = 1
                        /\ UpdateRanges(r)[1].row > 1
            /\ req[r].pc = "rowWrite" /\ HeaderDue(r) =>
                   SubSeq(tabs[req[r].sheetName][1], 1, Len(expected.cells)) = expected.cells

\* C14 witness: the header of a 12-column tab with a duplicate Auto
\* Description was rewritten over A1:L1 and the row write is awaited.
C14_Witness ==
    \E r \in Requests :
        /\ req[r].pc = "rowWrite" /\ req[r].index = 11 /\ req[r].needsHeaderUpdate
        /\ req[r].values[1][11] = "Auto Description"
        /\ tabs[req[r].sheetName][1][11] = "Auto Title"
        /\ UpdateRanges(r)[1].endColumn = "L"

\* C15: a Sheets export that answers 200 has written its row by one
\* values.update, the last call it issued, to the range A{n}:{c}{n} of the tab,
\* where n is the number of rows read plus 1 and c is L when the row has 12
\* cells and K otherwise; the only other cell write is the header's, the rows
\* read below the header are left as read, and the response carries row = n,
\* the name of that tab and the url of the spreadsheet.
C15_TargetedRowWrite ==
    \A r \in Requests :
        Sheets(r) /\ Done(r, 200) =>
            LET ranges == UpdateRanges(r)
                last == ranges[Len(ranges)]
                n == Len(req[r].values) + 1
                grid == tabs[last.sheet]
            IN  /\ req[r].calls[Len(req[r].calls)].method = "values.update"
                /\ last = [sheet |-> req[r].sheetName, row |-> n,
                           endColumn |-> IF Len(req[r].rowData) = 12 THEN "L" ELSE "K"]
                /\ \A i \in 1..(Len(ranges) - 1) : ranges[i].row = 1
                /\ Len(ranges) <= 2
                /\ Len(grid) = n
                /\ SubSeq(grid[n], 1, Len(req[r].rowData)) = req[r].rowData
                /\ \A k \in 2..(n - 1) : grid[k] = req[r].values[k]
                /\ req[r].response.row = n
                /\ req[r].response.sheetName = last.sheet
                /\ req[r].response.spreadsheetId = TheSpreadsheet
                /\ req[r].response.sheetUrl = "https://docs.google.com/spreadsheets/d/sheet-1"

\* C15 witness: a 12-cell row was written to A3:L3 of a tab with two rows.
C15_Witness ==
    \E r \in Requests :
        /\ Sheets(r) /\ Done(r, 200)
        /\ Len(req[r].rowData) = 12
        /\ req[r].response.row = 3
        /\ UpdateRanges(r) = <<[sheet |-> "Cards", row |-> 3, endColumn |-> "L"]>>
        /\ tabs["Cards"][3] = req[r].rowData

\* The verifying lookup of r has failed: the request has ended with the
\* lookup as its only call, or the spreadsheet it names is unknown to the
\* service and the lookup was issued.
LookupFailed(r) ==
    /\ Sheets(r) /\ req[r].calls /= <<>>
    /\ \/ req[r].pc = "done" /\ Len(req[r].calls) = 1
       \/ req[r].pc /= "verify" /\ req[r].spreadsheetId /= TheSpreadsheet

\* C16: when the verifying lookup fails the export ends with 404 and the
\* error "Spreadsheet not found", the lookup is the only call the request
\* has issued (no add-sheet, no read, no header write, no row write), no row
\* was read or built and the tabs are as they were.
C16_LookupFailureIsTerminal ==
    \A r \in Requests :
        LookupFailed(r) =>
            /\ Done(r, 404)
            /\ req[r].response.error =
                   "Spreadsheet not found. Please check the spreadsheet ID: "
                       \o req[r].spreadsheetId
            /\ Methods(r) = <<"spreadsheets.get">>
            /\ ~Classified(r) /\ ~Built(r)
            /\ tabs \in TabStates({<<ExpectedHeaders, SoundRow>>, <<Headers(11), SoundRow>>})

\* C16 witness: an export to a spreadsheet the service does not know, named
\* in the request body, ended with 404 after the lookup.
C16_Witness ==
    \E r \in Requests :
        /\ LookupFailed(r) /\ Done(r, 404)
        /\ req[r].body.spreadsheetId = "sheet-404"
        /\ req[r].spreadsheetId = "sheet-404"
        /\ ~req[r].serviceFailed

\* A value a request or the environment does not give: unset or empty.
Missing(value) == value \in {undefined, ""}

\* C17: a /export/sheets request without cardId is answered 400; otherwise a
\* request whose cardId is not in the store is answered 404; otherwise a
\* request for which neither the environment nor the body gives a
\* spreadsheet id is answered 400 with an error that names
\* GOOGLE_SHEETS_SPREADSHEET_ID; each of the three is answered before any
\* service call, and no other request is answered 400.
C17_RequestChecks ==
    \A r \in Requests :
        Sheets(r) =>
            LET body == req[r].body
                rejected(code) == Done(r, code) /\ req[r].calls = <<>>
            IN  IF Missing(body.cardId)
                THEN rejected(400) /\ req[r].response.error = "Card ID is required"
                ELSE IF body.cardId \notin DOMAIN stored
                THEN rejected(404) /\ req[r].response.error = "Card not found"
                ELSE IF /\ Missing(environment.GOOGLE_SHEETS_SPREADSHEET_ID)
                        /\ Missing(body.spreadsheetId)
                THEN /\ rejected(400)
                     /\ Includes(req[r].response.error, "GOOGLE_SHEETS_SPREADSHEET_ID")
                ELSE /\ ~Done(r, 400)
                     /\ Done(r, 404) => req[r].calls /= <<>>

\* C17 witness: a request for an unknown card, with no spreadsheet id in the
\* environment or the body, was answered 404 for the card.
C17_Witness ==
    \E r \in Requests :
        /\ Sheets(r) /\ Done(r, 404) /\ req[r].calls = <<>>
        /\ req[r].body.cardId = "c9"
        /\ environment.GOOGLE_SHEETS_SPREADSHEET_ID = undefined
        /\ req[r].body.spreadsheetId = undefined

\* The step issues a call of the given method for r.
Issues(r, method) ==
    /\ Len(req'[r].calls) = Len(req[r].calls) + 1
    /\ req'[r].calls[Len(req'[r].calls)].method = method

\* The calls of r include one of the given method.
HasIssued(r, method) == \E i \in 1..Len(req[r].calls) : req[r].calls[i].method = method

\* C18: the step that follows the lookup of the sheets issues the add-sheet
\* request exactly when no sheet carries the resolved tab name; an add-sheet
\* request is issued by that step only, once per export and before the read
\* of the tab; and the read is issued for a tab that exists.
C18_AddSheetWhenMissing ==
    [][\A r \in Requests :
          /\ req[r].pc = "getSheets" /\ req'[r].pc \notin {"getSheets", "done"} =>
                 (Issues(r, "batchUpdate.addSheet") <=> req[r].sheetName \notin DOMAIN tabs)
          /\ Issues(r, "batchUpdate.addSheet") =>
                 /\ req[r].pc = "getSheets"
                 /\ req[r].sheetName \notin DOMAIN tabs
                 /\ ~HasIssued(r, "batchUpdate.addSheet")
                 /\ ~HasIssued(r, "values.get")
          /\ Issues(r, "values.get") =>
                 /\ req[r].sheetName \in DOMAIN tabs'
                 /\ req[r].sheetName \notin DOMAIN tabs => HasIssued(r, "batchUpdate.addSheet")
      ]_vars

\* C18 witness: the tab named in the environment was missing, the request
\* has added it and then read it.
C18_Witness ==
    \E r \in Requests :
        /\ req[r].sheetName = "Export"
        /\ Methods(r) = <<"spreadsheets.get", "spreadsheets.get",
                          "batchUpdate.addSheet", "values.get">>
        /\ "Export" \in DOMAIN tabs

\* The deployment mode: NODE_ENV, "development" when it is not set.
Mode == IF Missing(environment.NODE_ENV) THEN "development" ELSE environment.NODE_ENV

\* The /sheets request r has ended with a failure other than 400 and 404.
OtherFailure(r) == Sheets(r) /\ req[r].pc = "done" /\ req[r].status \notin {200, 400, 404}

\* C19 as stated: a /export/sheets failure other than 400 and 404 is answered
\* 500 with an error, and with details exactly when the mode is not
\* production.
C19_DetailsOutsideProduction ==
    \A r \in Requests :
        OtherFailure(r) =>
            /\ req[r].status = 500
            /\ req[r].response.error /= ""
            /\ req[r].response.details /= undefined <=> Mode /= "production"

\* C19 amended: a /export/sheets failure other than 400 and 404 is answered
\* 500 with an error; the details are present exactly when the mode is
\* development and the failure was raised after the first service call was
\* issued, where the catch block of the handler answers; they are absent in
\* production and in every other mode, and absent from the 500 for missing
\* credentials.
C19_DetailsInDevelopment ==
    \A r \in Requests :
        OtherFailure(r) =>
            /\ req[r].status = 500
            /\ req[r].response.error /= ""
            /\ req[r].response.details /= undefined <=>
                   Mode = "development" /\ req[r].calls /= <<>>
            /\ req[r].calls /= <<>> => req[r].response.error = "Google Sheets export failed"
            /\ req[r].calls = <<>> => ~environment.credentials

\* C19 witness: in development a row that failed validation was answered 500
\* with the message of the validation as details.
C19_Witness ==
    \E r \in Requests :
        /\ OtherFailure(r) /\ Built(r) /\ ~req[r].serviceFailed
        /\ environment.NODE_ENV = undefined
        /\ req[r].response.details /= undefined
        /\ Len(req[r].response.details) > 0

\* C20: a /export/csv request for a stored card is answered 200 with two
\* records, the header and one data record; the header is the 11 column
\* names in order; the data record has 11 fields, the normalized fields in
\* column order, the listing title of the validator in the fourth and the
\* autoDescription of the record as the store holds it after the swap check
\* in the last; a field is empty where the record has no value.
C20_CsvTwoLines ==
    \A r \in Requests :
        Csv(r) /\ req[r].pc = "done" /\ req[r].body.cardId \in DOMAIN stored =>
            LET csv == req[r].response.csv
                card == cardsStore[req[r].body.cardId]
                n == card.normalized
            IN  /\ req[r].status = 200
                /\ Len(csv) = 2
                /\ csv[1] = <<"Year", "Set", "Card Number", "Listing Title",
                              "Player First Name", "Player Last Name",
                              "Grading Company", "Grade", "Cert",
                              "Listing Caption", "Auto Description">>
                /\ csv[2] = <<CellOf(n.year), CellOf(n.set), CellOf(n.cardNumber),
                              CellOf(req[r].listingTitle), CellOf(n.playerFirstName),
                              CellOf(n.playerLastName), CellOf(n.gradingCompany),
                              CellOf(n.grade), CellOf(n.cert), CellOf(n.caption),
                              CellOf(card.autoDescription)>>
                /\ card = SwapCheck(StoredCard(r))

\* C20 witness: the CSV of a record stored with its two texts exchanged has
\* the stored autoTitle as Auto Description and the stored autoDescription
\* as Listing Title.
C20_Witness ==
    \E r \in Requests :
        /\ Csv(r) /\ Done(r, 200)
        /\ StoredCard(r).autoTitle = Desc300
        /\ StoredCard(r).autoDescription = Desc60
        /\ req[r].response.csv[2][11] = Desc300
        /\ req[r].response.csv[2][4] = Desc60
        /\ req[r].response.csv[2][9] = ""

\* The step starts an export of card c: a request leaves idle with that cardId.
StartsExport(c) ==
    \E r \in Requests :
        req[r].pc = "idle" /\ req'[r].pc /= "idle" /\ req'[r].body.cardId = c

\* C21: a step of an export keeps the ids of the store, and changes a record
\* only when it is the start of an export of that record, the record has an
\* autoTitle of more than 200 characters and a non-empty autoDescription of
\* fewer than 100, and the new record is the old one with the two texts
\* exchanged and the same normalized fields; the normalized fields of every
\* record stay the ones the pipeline stored.
C21_StoreFrame ==
    /\ [](\A c \in DOMAIN stored :
            c \in DOMAIN cardsStore /\ cardsStore[c].normalized = stored[c].normalized)
    /\ [][/\ DOMAIN cardsStore' = DOMAIN cardsStore
          /\ \A c \in DOMAIN cardsStore :
                cardsStore'[c] /= cardsStore[c] =>
                    /\ StartsExport(c)
                    /\ LengthsSwapped(cardsStore[c])
                    /\ cardsStore[c].autoDescription /= ""
                    /\ cardsStore'[c] = Exchanged(cardsStore[c])
        ]_vars

\* C21 witness: a Sheets export that ended with 500 has exchanged the two
\* texts of its record and left the normalized fields and the other record
\* as stored.
C21_Witness ==
    \E r \in Requests :
        /\ Sheets(r) /\ Done(r, 500)
        /\ cardsStore[req[r].body.cardId] /= StoredCard(r)
        /\ cardsStore[req[r].body.cardId] = Exchanged(StoredCard(r))
        /\ \A c \in DOMAIN stored \ {req[r].body.cardId} : cardsStore[c] = stored[c]

\* The first k requests are Sheets exports that answered 200, the first of
\* them to a tab without rows.
SuccessfulFromEmpty(k) ==
    /\ \A r \in 1..k : Sheets(r) /\ Done(r, 200)
    /\ req[1].nextRow = 1

\* C22: in a sequence of successful Sheets exports sent one after the other
\* to a tab that had no rows, the data row of each export stays at the row
\* the export reported, whatever the later exports have written so far.
C22_EarlierRowsKept ==
    \A k \in Requests :
        SuccessfulFromEmpty(k) =>
            \A r \in 1..k :
                LET row == tabs[req[r].sheetName][req[r].response.row]
                IN  SubSeq(row, 1, Len(req[r].rowData)) = req[r].rowData

\* Export q has answered 200 after it rewrote the header of a tab that had rows.
RewroteHeader(q) ==
    /\ Sheets(q) /\ Done(q, 200)
    /\ req[q].needsHeaderUpdate
    /\ req[q].nextRow > 1

\* C23: when an export has rewritten the header of a tab that had rows, the
\* export sent next reads a header row that is one of the two recognised
\* layouts and does not flag the header again, whatever the header row was.
C23_HeaderHealsOnce ==
    \A r \in Requests \ {1} :
        RewroteHeader(r - 1) /\ Classified(r) =>
            /\ ~req[r].needsHeaderUpdate
            /\ req[r].values[1] \in
                   {HeaderWrite(req[r].sheetName, 10).cells,
                    HeaderWrite(req[r].sheetName, 11).cells}

\* The Listing Title field /export/csv produces for the record r exports.
CsvTitleOf(r) == CellOf(CsvListingTitle(SwapCheck(StoredCard(r))))

\* C24: the Listing Title cell of the row of every Sheets export that
\* answered 200 is the Listing Title field /export/csv produces for the same
\* stored record; a built row whose Listing Title differs from it has the
\* last-resort literal of the final safety check and is never written.
C24_PathsAgree ==
    \A r \in Requests :
        /\ Sheets(r) /\ Done(r, 200) => TitleCell(r) = CsvTitleOf(r)
        /\ Built(r) /\ TitleCell(r) /= CsvTitleOf(r) =>
               /\ TitleCell(r) = "Untitled Card"
               /\ Done(r, 500)
               /\ UpdateRanges(r) = <<>>

\* C24 witness: a Sheets export answered 200 with a Listing Title that the
\* repair has cut out of an autoTitle with the description embedded.
C24_Witness ==
    \E r \in Requests :
        /\ Sheets(r) /\ Done(r, 200)
        /\ StoredCard(r).autoTitle = Embedded180
        /\ TitleCell(r) = Title31
        /\ TitleCell(r) = CsvTitleOf(r)

\* C25: when GOOGLE_SHEETS_SPREADSHEET_ID is not set, an export that has
\* issued a call uses the spreadsheetId of its request body, and when
\* GOOGLE_SHEETS_SHEET_NAME is not set it uses the sheetName of its request
\* body: for the tab it reads, for the ranges it writes and in the response.
C25_BodyUsedWhenUnset ==
    \A r \in Requests :
        Sheets(r) /\ req[r].calls /= <<>> =>
            LET body == req[r].body
            IN  /\ Missing(environment.GOOGLE_SHEETS_SPREADSHEET_ID)
                      /\ ~Missing(body.spreadsheetId) =>
                       /\ req[r].spreadsheetId = body.spreadsheetId
                       /\ Done(r, 200) => req[r].response.spreadsheetId = body.spreadsheetId
                /\ Missing(environment.GOOGLE_SHEETS_SHEET_NAME)
                      /\ ~Missing(body.sheetName) =>
                       /\ req[r].sheetName = body.sheetName
                       /\ \A i \in 1..Len(UpdateRanges(r)) :
                              UpdateRanges(r)[i].sheet = body.sheetName
                       /\ Done(r, 200) => req[r].response.sheetName = body.sheetName

\* The record the handler of r works on: the stored record after the swap check.
Checked(r) == SwapCheck(StoredCard(r))

\* The title after the embedded-description repair, which runs when the
\* title and the autoDescription are both non-empty.
AfterRepair(title, card) ==
    IF ~Missing(title) /\ ~Missing(card.autoDescription)
          /\ EmbeddedDefect(title, card.autoDescription)
    THEN ExtractTitle(title)
    ELSE title

\* normalized.title, or the literal when it is empty.
Fallback(card, literal) ==
    IF Missing(card.normalized.title) THEN literal ELSE card.normalized.title

\* The requests that have computed their listingTitle.
Titled(r) == (Csv(r) /\ Done(r, 200)) \/ (Sheets(r) /\ req[r].calls /= <<>>)

\* C26 as stated: the working title is autoTitle when it is non-empty and
\* normalized.title otherwise, and the listingTitle is that value after the
\* repair, replaced by normalized.title, or by "Untitled" when normalized.title
\* is empty, if it equals autoDescription.
C26_NonEmptyAutoTitle ==
    \A r \in Requests :
        Titled(r) =>
            LET card == Checked(r)
                working == IF Missing(card.autoTitle)
                           THEN card.normalized.title ELSE card.autoTitle
                repaired == AfterRepair(working, card)
            IN  req[r].listingTitle =
                    IF repaired = card.autoDescription
                    THEN Fallback(card, "Untitled")
                    ELSE repaired

\* C26 amended: the working title is autoTitle when it has a character that
\* is not white space and normalized.title otherwise; the listingTitle is that
\* value after the repair, replaced by normalized.title, or by "Untitled" when
\* normalized.title is empty, if it is non-empty and equals autoDescription;
\* the /sheets handler then replaces a listingTitle that still equals
\* autoDescription by normalized.title, or by "Untitled Card".
C26_NonBlankAutoTitle ==
    \A r \in Requests :
        Titled(r) =>
            LET card == Checked(r)
                working == IF Missing(card.autoTitle) \/ Trim(card.autoTitle) = ""
                           THEN card.normalized.title ELSE card.autoTitle
                repaired == AfterRepair(working, card)
                title == IF ~Missing(repaired) /\ repaired = card.autoDescription
                         THEN Fallback(card, "Untitled")
                         ELSE repaired
            IN  req[r].listingTitle =
                    IF Sheets(r) /\ ~Missing(title) /\ title = card.autoDescription
                    THEN Fallback(card, "Untitled Card")
                    ELSE title

\* C26 witness: a record whose autoTitle is white space only was exported
\* with its normalized.title as Listing Title.
C26_Witness ==
    \E r \in Requests :
        /\ Csv(r) /\ Done(r, 200)
        /\ StoredCard(r).autoTitle = Blank
        /\ StoredCard(r).normalized.title = Title31
        /\ req[r].listingTitle = Title31

\* The working title of the record r exports.
WorkingOf(r) ==
    LET card == Checked(r)
    IN  IF Missing(card.autoTitle) \/ Trim(card.autoTitle) = ""
        THEN card.normalized.title ELSE card.autoTitle

\* The title is longer than 150 characters and contains the first 50
\* characters of the description.
Embeds(title, desc) ==
    /\ desc /= undefined
    /\ Len(title) > 150
    /\ Includes(title, SubSeq(desc, 1, Min(50, Len(desc))))

\* The segment before the first name boundary when it is not empty, else the
\* first 100 characters; trimmed.
Segment(title) ==
    LET lengths == GroupLengths(title)
        shortest == CHOOSE k \in lengths : \A j \in lengths : k <= j
    IN  IF lengths /= {} /\ shortest > 0
        THEN Trim(SubSeq(title, 1, shortest))
        ELSE Trim(SubSeq(title, 1, Min(100, Len(title))))

\* The listingTitle of r is the given value, unless that value equals the
\* autoDescription and the identity check has replaced it.
TitleIsUnlessIdentical(r, value) ==
    \/ req[r].listingTitle = value
    \/ value /= "" /\ value = Checked(r).autoDescription

\* C27 as stated: a working title of more than 150 characters that contains
\* the first 50 characters of autoDescription is replaced by the segment
\* before the name boundary or by its first 100 characters, a trimmed prefix
\* of at most 150 characters; any other working title is left unchanged.
C27_RepairOnDetection ==
    \A r \in Requests :
        Titled(r) =>
            IF Embeds(WorkingOf(r), Checked(r).autoDescription)
            THEN /\ TitleIsUnlessIdentical(r, Segment(WorkingOf(r)))
                 /\ Len(Segment(WorkingOf(r))) <= 150
            ELSE TitleIsUnlessIdentical(r, WorkingOf(r))

\* C27 amended: the same, where the detection also requires a non-empty
\* autoDescription; next to an empty autoDescription a working title of more
\* than 150 characters is left unchanged. The replacement is trimmed and is
\* a piece of the first 150 characters of the working title.
C27_RepairOnDetectionNonEmpty ==
    \A r \in Requests :
        Titled(r) =>
            IF /\ ~Missing(Checked(r).autoDescription)
               /\ Embeds(WorkingOf(r), Checked(r).autoDescription)
            THEN LET segment == Segment(WorkingOf(r))
                 IN  /\ TitleIsUnlessIdentical(r, segment)
                     /\ Len(segment) <= 150
                     /\ Includes(SubSeq(WorkingOf(r), 1, 150), segment)
                     /\ segment = Trim(segment)
            ELSE TitleIsUnlessIdentical(r, WorkingOf(r))

\* C27 witness: an autoTitle of 180 characters with the description embedded
\* and no name boundary was cut to its first 100 characters, trimmed.
C27_Witness ==
    \E r \in Requests :
        /\ Csv(r) /\ Done(r, 200)
        /\ StoredCard(r).autoTitle = Unbounded180
        /\ StoredCard(r).autoDescription = Desc300
        /\ req[r].listingTitle = Trim(SubSeq(Unbounded180, 1, 100))
        /\ Len(req[r].listingTitle) <= 100

(***************************************************************************)
(* C28                                                                     *)
(***************************************************************************)

\* A getCard has just resolved with a card for which `obtained` holds.
Obtains(obtained(_)) == page'.inFlight < page.inFlight /\ obtained(page'.card)

NonEmptyTitle(card) == Truthy(card.autoTitle)

====
